---- MODULE Spec2Model ----
(***************************************************************************)
(* Model of time-splatting/train.py: Runner construction, the training     *)
(* loop of Runner.train (one action per statement group of an iteration),  *)
(* the viewer's render thread, and the eval-only checkpoint load of main.  *)
(*                                                                         *)
(* A population is modelled by the leading length of each of its named     *)
(* parameter arrays, the leading length of each group's optimizer moment   *)
(* state, and the layout of each group's gradient.                         *)
(***************************************************************************)
EXTENDS Integers, Naturals, Sequences, FiniteSets, TLC

(* ---------------------------------------------------------------- bounds *)
\* cfg.max_steps of the modelled runs
MaxSteps == 3
\* cfg.init_num_pts of the modelled runs
InitNumPts == 20
\* how far above / below init_num_pts the modelled cap_max values lie
CapSpread == 1
\* largest population a threshold-variant edit may reach in the model
GrowRoom == 1
\* strategy.refine_start_iter and strategy.refine_every of the modelled runs
RefineStart == 0
RefineEvery == 1
\* number of checkpoint files given to an eval-only run
MaxCkpts == 3
\* largest population held by one checkpoint file
MaxCkptLen == 2
\* len(trainloader): samples per pass over the training set
TrainLen == 2
\* the non-zero time mean of a primitive, largest coordinate of a query
MaxMean == 1
MaxTime == 2
\* the non-zero logarithm of a time scale and the non-zero coupling entry
MaxLogScale == 1
MaxAniso == 1
\* the pixel value that stands for 1.0
PixelUnit == 3

Empty == 0 - 1

Pops == {"albedo", "shading"}

\* the optimizers a learning-rate schedule can be bound to: the means group
\* of a population, or the bilateral grid's optimizer
SchedTargets == Pops \cup {"bil_grid"}

(* ------------------------------------------------------------- parameters *)
\* the names of the parameter groups, in the order of the params list
BaseKeys == <<"means", "scales", "quats", "opacities", "times", "time_scales", "colors">>

KeysOf(use_shading) ==
    IF use_shading THEN Append(BaseKeys, "time_anisos") ELSE BaseKeys

Range(s) == {s[i] : i \in 1..Len(s)}

\* groups whose array takes part in the render, hence receives a gradient:
\* time_anisos is read only by splat_cholesky, which the render never calls
RenderedKeys == Range(BaseKeys)

\* groups whose gradient the rasterizer already returns in sparse layout
\* when sparse_grad is on
RasterSparseKeys == {"means", "scales", "quats"}

NoArrays == [k \in {} |-> 0]

\* the population built by create_splats_with_optimizers: every array has
\* init_num_pts rows; optimizer moment state is created by the first step
NewLen(n, use_shading) == [k \in Range(KeysOf(use_shading)) |-> n]
NewOpt(use_shading) == [k \in Range(KeysOf(use_shading)) |-> Empty]
NewGrad(use_shading) == [k \in Range(KeysOf(use_shading)) |-> "none"]

OptimizerClass(c) ==
    IF c.sparse_grad THEN "SparseAdam"
    ELSE IF c.visible_adam THEN "SelectiveAdam"
    ELSE "Adam"

(* ---------------------------------------------------------- configuration *)
Variants == {"default", "mcmc", "other"}
Codecs == {"none", "png", "other"}
CapChoices == {InitNumPts - CapSpread, InitNumPts + CapSpread}

Configs ==
    [ strategy : Variants,
      shading_strategy : Variants,
      use_shading : BOOLEAN,
      sparse_grad : BOOLEAN,
      packed : BOOLEAN,
      visible_adam : BOOLEAN,
      compression : Codecs,
      disable_viewer : BOOLEAN,
      save_steps : {{}, {1}},
      eval_steps : {{}, {MaxSteps}},
      ckpt : {0},
      init_num_pts : {InitNumPts},
      cap_max : CapChoices,
      max_steps : {MaxSteps} ]

VARIABLES
    cfg,        \* the Config of the run
    pc,         \* position of the main thread
    abortAt,    \* where the run raised, "" while it has not
    step,       \* loop variable of Runner.train
    splats,     \* [pop -> [key -> leading length of the array]]
    optState,   \* [pop -> [key -> leading length of the moment state, or Empty]]
    grad,       \* [pop -> [key -> "none" | "dense" | "sparse"]]
    stratState, \* [pop -> the call form that initialized the controller state]
    lrDecays,   \* [target -> number of times its lr was multiplied by gamma]
    lock,       \* holder of viewer.lock: "free" | "train" | "viewer"
    viewerState,\* viewer.state: "training" | "paused"
    optPop,     \* population whose optimizers the optimize loop is at
    optIdx,     \* index of the optimizer the optimize loop is at
    mask,       \* visibility_mask: [len, of] or NoMask
    saved,      \* the checkpoint files written so far
    trace,      \* events of the current iteration, in order
    runs,       \* eval-only run: the trained populations behind the given files
    files,      \* eval-only run: the files named by cfg.ckpt, in order
    arrays,     \* eval-only run: [pop -> [key -> rows of the array]]
    loadIdx,    \* eval-only run: index of the key the load loop is at
    data,       \* the fields of the training sample held by the iteration
    iterLeft,   \* samples left in trainloader_iter
    prim,       \* rasterize_splats: one primitive of the splats handed in
    query,      \* rasterize_splats: the times vector handed in
    kern,       \* rasterize_splats: time_alpha and opacities of the primitive
    pix,        \* one pixel of the two renders, and the sample it belongs to
    img,        \* the pixel of the final image, as train and as eval compose it
    renderMode, \* render_tab_state.render_mode of the viewer request in progress
    renders,    \* what the render callback gave back for it
    sched       \* __main__: the step fields of the parsed Config, before and after adjust_steps

loadVars == <<runs, files, arrays, loadIdx>>

sampleVars == <<data, iterLeft>>

renderVars == <<prim, query, kern, pix, img>>

viewerVars == <<renderMode, renders>>

vars == <<cfg, pc, abortAt, step, splats, optState, grad, stratState, lrDecays,
          lock, viewerState, optPop, optIdx, mask, saved, trace, loadVars,
          sampleVars, renderVars, viewerVars, sched>>

NoPrim == [pop |-> ""]
NoKern == [time_alpha |-> "none"]
NoPix == [albedo |-> Empty]
NotComposed == [status |-> "none", field |-> "", v |-> 0]
NoImg == [train |-> NotComposed, eval |-> NotComposed]

NoSched == [status |-> "none"]

\* the step scaling of __main__ is not followed
Unscaled == sched = NoSched

\* no single render is followed
NoRender ==
    /\ prim = NoPrim
    /\ query = <<>>
    /\ kern = NoKern
    /\ pix = NoPix
    /\ img = NoImg

NoMask == [len |-> Empty, of |-> ""]

Event(e, pop, key, arg) == [e |-> e, pop |-> pop, key |-> key, arg |-> arg]

\* the state of a process before Runner(cfg) is entered
Start ==
    /\ pc = "construct"
    /\ abortAt = ""
    /\ step = 0
    /\ splats = [p \in Pops |-> NoArrays]
    /\ optState = [p \in Pops |-> NoArrays]
    /\ grad = [p \in Pops |-> NoArrays]
    /\ stratState = [p \in Pops |-> "none"]
    /\ lrDecays = [t \in SchedTargets |-> 0]
    /\ lock = "free"
    /\ viewerState = "training"
    /\ optPop = "albedo"
    /\ optIdx = 1
    /\ mask = NoMask
    /\ saved = {}
    /\ trace = <<>>
    /\ data = {}
    /\ iterLeft = TrainLen
    /\ renderMode = "none"
    /\ renders = "none"

\* a training run: cfg.ckpt is None
Init ==
    /\ cfg \in Configs
    /\ Start
    /\ Unscaled
    /\ NoRender
    /\ runs = <<>>
    /\ files = <<>>
    /\ arrays = [p \in Pops |-> NoArrays]
    /\ loadIdx = 1

Abort(where) ==
    /\ pc' = "aborted"
    /\ abortAt' = where

(* ----------------------------------------------------- Runner.__init__ *)
\* the call form used to initialize the albedo controller state
AlbedoInitForm(c) ==
    CASE c.strategy = "default" -> "default"
      [] c.strategy = "mcmc" -> "mcmc"
      [] OTHER -> "assert_never"

\* the call form used to initialize the shading controller state: the
\* branch is chosen by the type of cfg.strategy
ShadingInitForm(c) ==
    CASE c.strategy = "default" -> "default"
      [] c.strategy = "mcmc" -> "mcmc"
      [] OTHER -> "assert_never"

\* whether a controller of variant v accepts initialize_state in call form f:
\* the relocation variant takes no scene_scale argument
AcceptsInitForm(v, f) ==
    CASE f = "assert_never" -> FALSE
      [] v = "mcmc" -> f = "mcmc"
      [] OTHER -> TRUE

CompressionKnown(c) == c.compression \in {"none", "png"}

ConstructionError(c) ==
    CASE ~AcceptsInitForm(c.strategy, AlbedoInitForm(c)) -> "init_state"
      [] c.use_shading /\ ~AcceptsInitForm(c.shading_strategy, ShadingInitForm(c))
            -> "shading_init_state"
      [] ~CompressionKnown(c) -> "compression"
      [] OTHER -> ""

\* main: evaluation only when checkpoint files are given, training otherwise
AfterConstruct(c) == IF c.ckpt > 0 THEN "load" ELSE "acquire"

\* one row of a parameter array: row i of group k as trained by run r
\* (run 0 is the random initialization of this process)
Tag(r, k, i) == [run |-> r, key |-> k, row |-> i]

PopArrays(r, n, use_shading) ==
    [k \in Range(KeysOf(use_shading)) |-> [i \in 1..n |-> Tag(r, k, i)]]

\* the contents of both freshly created populations
FreshArrays(c) ==
    [p \in Pops |->
        IF p = "albedo" THEN PopArrays(0, c.init_num_pts, FALSE)
        ELSE IF c.use_shading THEN PopArrays(0, c.init_num_pts, TRUE)
        ELSE NoArrays]

RunnerInit ==
    /\ pc = "construct"
    /\ Len(files) = cfg.ckpt
    /\ arrays' = IF cfg.ckpt > 0 THEN FreshArrays(cfg) ELSE arrays
    /\ splats' = [p \in Pops |->
                    IF p = "albedo" THEN NewLen(cfg.init_num_pts, FALSE)
                    ELSE IF cfg.use_shading THEN NewLen(cfg.init_num_pts, TRUE)
                    ELSE NoArrays]
    /\ optState' = [p \in Pops |->
                    IF p = "albedo" THEN NewOpt(FALSE)
                    ELSE IF cfg.use_shading THEN NewOpt(TRUE)
                    ELSE NoArrays]
    /\ grad' = [p \in Pops |->
                    IF p = "albedo" THEN NewGrad(FALSE)
                    ELSE IF cfg.use_shading THEN NewGrad(TRUE)
                    ELSE NoArrays]
    /\ IF ConstructionError(cfg) # ""
       THEN /\ Abort(ConstructionError(cfg))
            /\ UNCHANGED stratState
       ELSE /\ pc' = AfterConstruct(cfg)
            /\ abortAt' = ""
            /\ stratState' = [p \in Pops |->
                    IF p = "albedo" THEN AlbedoInitForm(cfg)
                    ELSE IF cfg.use_shading THEN ShadingInitForm(cfg)
                    ELSE "none"]
    /\ UNCHANGED <<runs, files, loadIdx, sampleVars, renderVars, viewerVars, cfg, sched, step, lrDecays, lock,
                   viewerState, optPop, optIdx, mask, saved, trace>>

(* --------------------------------------------------------- Runner.train *)
UsesViewer(c) == ~c.disable_viewer

ActivePops(c) == IF c.use_shading THEN Pops ELSE {"albedo"}

\* the learning-rate schedules built at the top of train, each named by
\* the optimizer it is bound to: the ExponentialLR on self.optimizers["means"]
\* and the chained schedule on the bilateral grid's optimizer (use_bilagrid
\* is at its default, True)
Schedulers(c) == <<"albedo", "bil_grid">>

Emit(ev) == trace' = Append(trace, ev)

\* the user's pause / resume button; viewer.state is read only by the wait
\* loop at the top of an iteration
ViewerPause ==
    /\ UsesViewer(cfg)
    /\ pc = "acquire"
    /\ viewerState' = IF viewerState = "paused" THEN "training" ELSE "paused"
    /\ UNCHANGED <<loadVars, sampleVars, renderVars, viewerVars, cfg, sched, pc, abortAt, step, splats, optState, grad, stratState,
                   lrDecays, lock, optPop, optIdx, mask, saved, trace>>

\* a variant of AcquiredLock that leaves viewer.lock alone
AcquiredLockSkipped(c, l) == l

\* the lock after self.viewer.lock.acquire() at the top of an iteration
AcquiredLock(c, l) == IF UsesViewer(c) THEN "train" ELSE l

\* top of an iteration: wait while paused, then take viewer.lock
Acquire ==
    /\ pc = "acquire"
    /\ step < cfg.max_steps
    /\ UsesViewer(cfg) => (viewerState # "paused" /\ lock = "free")
    /\ lock' = AcquiredLock(cfg, lock)
    /\ pc' = "fetch"
    /\ trace' = <<>>
    /\ UNCHANGED <<loadVars, sampleVars, renderVars, viewerVars, cfg, sched, abortAt, step, splats, optState, grad, stratState,
                   lrDecays, viewerState, optPop, optIdx, mask, saved>>

\* the range of the loop is exhausted: train returns
LoopExit ==
    /\ pc = "acquire"
    /\ step = cfg.max_steps
    /\ pc' = "done"
    /\ UNCHANGED <<loadVars, sampleVars, renderVars, viewerVars, cfg, sched, abortAt, step, splats, optState, grad, stratState,
                   lrDecays, lock, viewerState, optPop, optIdx, mask, saved, trace>>

\* the fields of a sample that an iteration reads, in reading order: at the
\* top of the iteration, in front of the shading render, after the renders
FetchReads == <<"camtoworld", "K", "image", "image_id", "time">>
ShadingReads == <<"sun_angle">>
CompositeReads == <<"alpha">>

ReadFields(c) ==
    Range(FetchReads) \cup Range(CompositeReads)
        \cup (IF c.use_shading THEN Range(ShadingReads) ELSE {})

\* the samples the dataset may hand out: complete, or lacking one field that
\* the run reads
Samples(c) == {ReadFields(c)} \cup {ReadFields(c) \ {f} : f \in ReadFields(c)}

\* a variant of MissingField that overlooks every missing field
MissingFieldIgnored(d, reads) == ""

\* the first field of reads whose lookup data[field] raises, "" if none does
MissingField(d, reads) ==
    IF \A i \in 1..Len(reads) : reads[i] \in d THEN ""
    ELSE reads[CHOOSE i \in 1..Len(reads) :
                  /\ reads[i] \notin d
                  /\ \A j \in 1..(i - 1) : reads[j] \in d]

\* next(trainloader_iter): an exhausted iterator is replaced by a new one
NextIter(left) == IF left = 0 THEN TrainLen - 1 ELSE left - 1

\* data = next(trainloader_iter) and the reads of the sample's fields
Fetch ==
    /\ pc = "fetch"
    /\ \E s \in Samples(cfg) :
          /\ data' = s
          /\ iterLeft' = NextIter(iterLeft)
          /\ IF MissingField(s, FetchReads) # ""
             THEN /\ Abort("sample")
                  /\ UNCHANGED trace
             ELSE /\ pc' = "forward"
                  /\ abortAt' = abortAt
                  /\ Emit(Event("fetch", "", "",
                                IF iterLeft = 0 THEN "restart" ELSE ""))
    /\ UNCHANGED <<loadVars, renderVars, viewerVars, cfg, sched, step, splats, optState, grad, stratState,
                   lrDecays, lock, viewerState, optPop, optIdx, mask, saved>>

\* rasterize_splats on the albedo population; the rasterizer itself refuses
\* sparse_grad without packed in builds that check it; without shading the
\* read of the sample's alpha follows
Forward ==
    /\ pc = "forward"
    /\ \/ /\ Emit(Event("forward", "albedo", "", ""))
          /\ IF ~cfg.use_shading /\ MissingField(data, CompositeReads) # ""
             THEN Abort("sample")
             ELSE /\ pc' = IF cfg.use_shading THEN "forward_shading"
                           ELSE "pre_backward"
                  /\ abortAt' = abortAt
       \/ /\ cfg.sparse_grad /\ ~cfg.packed
          /\ Abort("rasterization")
          /\ UNCHANGED trace
    /\ UNCHANGED <<loadVars, sampleVars, renderVars, viewerVars, cfg, sched, step, splats, optState, grad, stratState,
                   lrDecays, lock, viewerState, optPop, optIdx, mask, saved>>

\* the read of the sun angles, rasterize_splats on the shading population,
\* the multiplicative composite and the read of the sample's alpha
ForwardShading ==
    /\ pc = "forward_shading"
    /\ IF MissingField(data, ShadingReads) # ""
       THEN /\ Abort("sample")
            /\ UNCHANGED trace
       ELSE /\ Emit(Event("forward", "shading", "", ""))
            /\ IF MissingField(data, CompositeReads) # ""
               THEN Abort("sample")
               ELSE /\ pc' = "pre_backward"
                    /\ abortAt' = abortAt
    /\ UNCHANGED <<loadVars, sampleVars, renderVars, viewerVars, cfg, sched, step, splats, optState, grad, stratState,
                   lrDecays, lock, viewerState, optPop, optIdx, mask, saved>>

\* the arguments of the step_pre_backward call made for population p
PreBackwardArgs(p) == [params |-> p, optimizers |-> p, state |-> p, info |-> p]

\* strategy.step_pre_backward: bookkeeping on the forward statistics only
PreBackward ==
    /\ pc = "pre_backward"
    /\ pc' = IF cfg.use_shading THEN "pre_backward_shading" ELSE "loss"
    /\ Emit(Event("pre_backward", PreBackwardArgs("albedo").params, "",
                  PreBackwardArgs("albedo").info))
    /\ UNCHANGED <<loadVars, sampleVars, renderVars, viewerVars, cfg, sched, abortAt, step, splats, optState, grad, stratState,
                   lrDecays, lock, viewerState, optPop, optIdx, mask, saved>>

PreBackwardShading ==
    /\ pc = "pre_backward_shading"
    /\ pc' = "loss"
    /\ Emit(Event("pre_backward", PreBackwardArgs("shading").params, "",
                  PreBackwardArgs("shading").info))
    /\ UNCHANGED <<loadVars, sampleVars, renderVars, viewerVars, cfg, sched, abortAt, step, splats, optState, grad, stratState,
                   lrDecays, lock, viewerState, optPop, optIdx, mask, saved>>

\* the photometric loss and the regularizers
Loss ==
    /\ pc = "loss"
    /\ pc' = "backward"
    /\ Emit(Event("loss", "", "", ""))
    /\ UNCHANGED <<loadVars, sampleVars, renderVars, viewerVars, cfg, sched, abortAt, step, splats, optState, grad, stratState,
                   lrDecays, lock, viewerState, optPop, optIdx, mask, saved>>

\* the layout of the gradient that loss.backward() leaves on group k
BackwardGrad(c, k) ==
    IF k \notin RenderedKeys THEN "none"
    ELSE IF c.sparse_grad /\ c.packed /\ k \in RasterSparseKeys THEN "sparse"
    ELSE "dense"

Backward ==
    /\ pc = "backward"
    /\ pc' = "checkpoint"
    /\ grad' = [p \in Pops |-> [k \in DOMAIN grad[p] |-> BackwardGrad(cfg, k)]]
    /\ Emit(Event("backward", "", "", ""))
    /\ UNCHANGED <<loadVars, sampleVars, renderVars, viewerVars, cfg, sched, abortAt, step, splats, optState, stratState,
                   lrDecays, lock, viewerState, optPop, optIdx, mask, saved>>

\* the record handed to torch.save: the step and self.splats.state_dict()
CheckpointData(st, sp) ==
    [step |-> st, entries |-> [e \in {"splats"} |-> sp["albedo"]]]

\* a variant of SaveDue that saves at the final step only
SaveDueFinalOnly(c, st) == st = c.max_steps - 1

SaveDue(c, st) == (st + 1 \in c.save_steps) \/ (st = c.max_steps - 1)

\* "save checkpoint before updating the model"
Checkpoint ==
    /\ pc = "checkpoint"
    /\ pc' = "sparsify"
    /\ IF SaveDue(cfg, step)
       THEN /\ saved' = saved \cup {CheckpointData(step, splats)}
            /\ Emit(Event("save", "", "", ""))
       ELSE UNCHANGED <<saved, trace>>
    /\ UNCHANGED <<loadVars, sampleVars, renderVars, viewerVars, cfg, sched, abortAt, step, splats, optState, grad, stratState,
                   lrDecays, lock, viewerState, optPop, optIdx, mask>>

\* a variant of SparseAssertHolds without the assertion
SparseAssertDropped(c) == TRUE

\* the guard of the assertion in front of the gradient conversion
SparseAssertHolds(c) == c.packed

\* the populations whose gradients are rewritten over info["gaussian_ids"]
SparsifiedPops(c) == {"albedo"}

\* "Turn Gradients into Sparse Tensor before running optimizer"
Sparsify ==
    /\ pc = "sparsify"
    /\ IF ~cfg.sparse_grad
       THEN /\ pc' = "mask"
            /\ UNCHANGED <<abortAt, grad, trace>>
       ELSE IF ~SparseAssertHolds(cfg)
       THEN /\ Abort("sparse_assert")
            /\ UNCHANGED <<grad, trace>>
       ELSE /\ pc' = "mask"
            /\ abortAt' = abortAt
            /\ grad' = [p \in Pops |->
                          IF p \in SparsifiedPops(cfg)
                          THEN [k \in DOMAIN grad[p] |->
                                  IF grad[p][k] = "none" THEN "none" ELSE "sparse"]
                          ELSE grad[p]]
            /\ Emit(Event("sparsify", "albedo", "", "albedo"))
    /\ UNCHANGED <<loadVars, sampleVars, renderVars, viewerVars, cfg, sched, step, splats, optState, stratState,
                   lrDecays, lock, viewerState, optPop, optIdx, mask, saved>>

\* visibility_mask, built from the albedo forward pass's info
VisibilityMask(sp) == [len |-> sp["albedo"]["means"], of |-> "albedo"]

ComputeMask ==
    /\ pc = "mask"
    /\ pc' = "opt_step"
    /\ mask' = IF cfg.visible_adam THEN VisibilityMask(splats) ELSE NoMask
    /\ optPop' = "albedo"
    /\ optIdx' = 1
    /\ UNCHANGED <<loadVars, sampleVars, renderVars, viewerVars, cfg, sched, abortAt, step, splats, optState, grad, stratState,
                   lrDecays, lock, viewerState, saved, trace>>

OptKeys(p) == KeysOf(p = "shading")

\* what optimizer.step raises for a group, "" when it returns: SparseAdam
\* takes a closure, not a mask, and refuses dense gradients; (Selective)Adam
\* refuses sparse ones; a group without gradient is skipped
StepError(c, g) ==
    IF c.visible_adam /\ OptimizerClass(c) = "SparseAdam" THEN "mask_as_closure"
    ELSE IF g = "none" THEN ""
    ELSE IF OptimizerClass(c) = "SparseAdam" /\ g = "dense" THEN "dense_grad"
    ELSE IF OptimizerClass(c) # "SparseAdam" /\ g = "sparse" THEN "sparse_grad"
    ELSE ""

\* a variant of AfterOptimizers that goes from the shading optimizers
\* straight to the post-backward calls
AfterOptimizersNoSched(c, p) ==
    CASE p = "albedo" -> "opt_aux"
      [] p = "shading" -> "post_backward"

\* where the loop goes once the optimizers of population p are done
AfterOptimizers(c, p) ==
    CASE p = "albedo" -> "opt_aux"
      [] p = "shading" -> "sched"

\* optimizer.step of the optimizer the loop is at
OptStep ==
    /\ pc = "opt_step"
    /\ LET k == OptKeys(optPop)[optIdx]
           err == StepError(cfg, grad[optPop][k])
       IN IF err # ""
          THEN /\ Abort(err)
               /\ UNCHANGED <<optState, trace>>
          ELSE /\ pc' = "opt_zero"
               /\ abortAt' = abortAt
               /\ optState' = [optState EXCEPT ![optPop][k] =
                                 IF grad[optPop][k] = "none" THEN @
                                 ELSE splats[optPop][k]]
               /\ Emit(Event("opt_step", optPop, k,
                             IF cfg.visible_adam THEN mask.of ELSE ""))
    /\ UNCHANGED <<loadVars, sampleVars, renderVars, viewerVars, cfg, sched, step, splats, grad, stratState,
                   lrDecays, lock, viewerState, optPop, optIdx, mask, saved>>

\* optimizer.zero_grad(set_to_none=True) of the same optimizer
OptZero ==
    /\ pc = "opt_zero"
    /\ LET k == OptKeys(optPop)[optIdx]
       IN /\ grad' = [grad EXCEPT ![optPop][k] = "none"]
          /\ Emit(Event("zero_grad", optPop, k, ""))
    /\ IF optIdx < Len(OptKeys(optPop))
       THEN /\ pc' = "opt_step"
            /\ optIdx' = optIdx + 1
            /\ UNCHANGED optPop
       ELSE /\ pc' = AfterOptimizers(cfg, optPop)
            /\ optIdx' = 1
            /\ UNCHANGED optPop
    /\ UNCHANGED <<loadVars, sampleVars, renderVars, viewerVars, cfg, sched, abortAt, step, splats, optState, stratState,
                   lrDecays, lock, viewerState, mask, saved>>

\* the app_optimizers (none) and the bilateral grid's optimizer
OptAux ==
    /\ pc = "opt_aux"
    /\ IF cfg.use_shading
       THEN /\ pc' = "opt_step"
            /\ optPop' = "shading"
       ELSE /\ pc' = "sched"
            /\ UNCHANGED optPop
    /\ Emit(Event("opt_aux", "", "", ""))
    /\ UNCHANGED <<loadVars, sampleVars, renderVars, viewerVars, cfg, sched, abortAt, step, splats, optState, grad, stratState,
                   lrDecays, lock, viewerState, optIdx, mask, saved>>

\* for scheduler in schedulers: scheduler.step()
SchedulerStep ==
    /\ pc = "sched"
    /\ pc' = "post_backward"
    /\ optPop' = "albedo"
    /\ lrDecays' = [t \in SchedTargets |->
                      IF t \in Range(Schedulers(cfg)) THEN lrDecays[t] + 1
                      ELSE lrDecays[t]]
    /\ trace' = trace \o [i \in 1..Len(Schedulers(cfg)) |->
                            Event("sched", Schedulers(cfg)[i], "", "")]
    /\ UNCHANGED <<loadVars, sampleVars, renderVars, viewerVars, cfg, sched, abortAt, step, splats, optState, grad, stratState,
                   lock, viewerState, optIdx, mask, saved>>

(* -------------------------------------------------- density control *)
Max(a, b) == IF a >= b THEN a ELSE b

RefineStop(c) == c.max_steps

\* the refine window shared by both variants
RefineDue(c, st) ==
    /\ st > RefineStart
    /\ st < RefineStop(c)
    /\ st % RefineEvery = 0

\* the population sizes a controller of variant v may leave behind: the
\* threshold variant splits, clones and prunes; the relocation variant
\* adds primitives up to cap_max and removes none
NewSizes(c, v, st, n) ==
    IF ~RefineDue(c, st) THEN {n}
    ELSE IF v = "mcmc" THEN n..Max(n, c.cap_max)
    ELSE {m \in (n - 1)..(n + 1) :
            /\ m >= 0
            /\ m >= c.init_num_pts - GrowRoom
            /\ m <= c.init_num_pts + GrowRoom}

\* a structural edit: the same index transformation on every array handed
\* in as params and on every existing moment state handed in as optimizers
EditParams(lens, n) == [k \in DOMAIN lens |-> n]
EditOptimizers(opt, n) == [k \in DOMAIN opt |-> IF opt[k] = Empty THEN Empty ELSE n]

\* a variant of PostVariant that tests the other population's strategy
PostVariantSwapped(c, p) == IF p = "albedo" THEN c.shading_strategy ELSE c.strategy

\* the variant the post-backward dispatch of population p tests
PostVariant(c, p) == IF p = "albedo" THEN c.strategy ELSE c.shading_strategy

\* a variant of PostBackwardArgs that hands the albedo optimizers to the
\* shading controller
PostBackwardArgsMixed(c, p) ==
    [params |-> p, optimizers |-> "albedo", state |-> p, info |-> p,
     lr |-> Schedulers(c)[1]]

\* the arguments of the step_post_backward call made for population p;
\* lr names the optimizer whose schedule supplies get_last_lr
PostBackwardArgs(c, p) ==
    [params |-> p, optimizers |-> p, state |-> p, info |-> p,
     lr |-> Schedulers(c)[1]]

EvalDue(c, st) == st + 1 \in c.eval_steps

\* where the iteration goes after the post-backward call of population p
AfterPost(c, p, st) ==
    IF p = "albedo" /\ c.use_shading THEN "post_backward"
    ELSE IF EvalDue(c, st) THEN "eval"
    ELSE "release"

\* "Run post-backward steps after backward and optimizer", for optPop
PostBackward ==
    /\ pc = "post_backward"
    /\ LET v == PostVariant(cfg, optPop)
           a == PostBackwardArgs(cfg, optPop)
       IN IF v \notin {"default", "mcmc"}
          THEN /\ Abort("assert_never")
               /\ UNCHANGED <<splats, optState, optPop, trace>>
          ELSE \E n \in NewSizes(cfg, v, step, splats[a.params]["means"]) :
               /\ pc' = AfterPost(cfg, optPop, step)
               /\ abortAt' = abortAt
               /\ splats' = [splats EXCEPT ![a.params] = EditParams(@, n)]
               /\ optState' = [optState EXCEPT ![a.optimizers] = EditOptimizers(@, n)]
               /\ optPop' = IF optPop = "albedo" /\ cfg.use_shading
                            THEN "shading" ELSE "albedo"
               /\ Emit(Event("post_backward", a.params, v,
                             IF v = "mcmc" THEN a.lr ELSE ""))
    /\ UNCHANGED <<loadVars, sampleVars, renderVars, viewerVars, cfg, sched, step, grad, stratState,
                   lrDecays, lock, viewerState, optIdx, mask, saved>>

\* self.eval(step): with shading it reads the sample field "sun_angles",
\* which the dataset may or may not provide
Eval ==
    /\ pc = "eval"
    /\ \/ /\ pc' = "render_traj"
          /\ abortAt' = abortAt
          /\ Emit(Event("eval", "", "", ""))
       \/ /\ cfg.use_shading
          /\ Abort("eval")
          /\ UNCHANGED trace
    /\ UNCHANGED <<loadVars, sampleVars, renderVars, viewerVars, cfg, sched, step, splats, optState, grad, stratState,
                   lrDecays, lock, viewerState, optPop, optIdx, mask, saved>>

\* self.render_traj(step): its first statement reads cfg.disable_video,
\* which Config does not define
RenderTraj ==
    /\ pc = "render_traj"
    /\ Abort("render_traj")
    /\ UNCHANGED <<loadVars, sampleVars, renderVars, viewerVars, cfg, sched, step, splats, optState, grad, stratState,
                   lrDecays, lock, viewerState, optPop, optIdx, mask, saved, trace>>

\* the lock the iteration gives back at its end
ReleasedLock(c, l) == IF UsesViewer(c) THEN "free" ELSE l

\* end of the iteration: release viewer.lock, update the viewer
Release ==
    /\ pc = "release"
    /\ pc' = "acquire"
    /\ lock' = ReleasedLock(cfg, lock)
    /\ step' = step + 1
    /\ trace' = <<>>
    /\ UNCHANGED <<loadVars, sampleVars, renderVars, viewerVars, cfg, sched, abortAt, splats, optState, grad, stratState,
                   lrDecays, viewerState, optPop, optIdx, mask, saved>>

(* ------------------------------------------------------ viewer thread *)
Constructed == pc # "construct" /\ stratState["albedo"] # "none"

\* the render modes the viewer's panel offers
RenderModes == {"full", "albedo", "shading", "alpha"}

\* whether the callback renders the shading population for this mode
RendersShading(c, mode) == c.use_shading /\ mode # "albedo"

\* whether the callback's telemetry reads self.shading_splats and
\* shading_info for this mode
CountsShading(c, mode) == mode = "full" \/ (mode # "albedo" /\ c.use_shading)

\* what _viewer_render_fn gives back: an image, or the error raised by the
\* read of an attribute or local that was never bound
ViewerRenders(c, mode) ==
    IF CountsShading(c, mode) /\ ~RendersShading(c, mode) THEN "AttributeError"
    ELSE "image"

\* the viewer's render thread takes viewer.lock for a request
ViewerRenderBegin ==
    /\ UsesViewer(cfg)
    /\ Constructed
    /\ lock = "free"
    /\ lock' = "viewer"
    /\ renderMode' \in RenderModes
    /\ UNCHANGED <<loadVars, sampleVars, renderVars, renders, cfg, sched, pc, abortAt, step,
                   splats, optState, grad, stratState, lrDecays, viewerState,
                   optPop, optIdx, mask, saved, trace>>

\* the render callback, run by the viewer's render thread
ViewerRenderFn ==
    /\ lock = "viewer"
    /\ renders = "none"
    /\ renders' = ViewerRenders(cfg, renderMode)
    /\ UNCHANGED <<loadVars, sampleVars, renderVars, renderMode, cfg, sched, pc, abortAt,
                   step, splats, optState, grad, stratState, lrDecays, lock,
                   viewerState, optPop, optIdx, mask, saved, trace>>

\* the request is over: the result goes to the client, the lock is given back
ViewerRenderEnd ==
    /\ lock = "viewer"
    /\ renders # "none"
    /\ lock' = "free"
    /\ renderMode' = "none"
    /\ renders' = "none"
    /\ UNCHANGED <<loadVars, sampleVars, renderVars, cfg, sched, pc, abortAt, step, splats,
                   optState, grad, stratState, lrDecays, viewerState, optPop,
                   optIdx, mask, saved, trace>>

(* ------------------------------------------------ main, eval-only run *)
\* the configurations of the modelled eval-only runs: cfg.ckpt names files
LoadConfigs ==
    [ strategy : {"mcmc"},
      shading_strategy : {"mcmc"},
      use_shading : BOOLEAN,
      sparse_grad : {FALSE},
      packed : {FALSE},
      visible_adam : {FALSE},
      compression : {"none", "png"},
      disable_viewer : BOOLEAN,
      save_steps : {{}},
      eval_steps : {{}},
      ckpt : 1..MaxCkpts,
      init_num_pts : {InitNumPts},
      cap_max : {InitNumPts + CapSpread},
      max_steps : {MaxSteps} ]

\* an eval-only run: cfg.ckpt names files, each written by an earlier
\* training run from populations whose arrays share one length; every run
\* writes a file at its last step, the first file may be an earlier one
InitLoad ==
    /\ cfg \in LoadConfigs
    /\ Start
    /\ Unscaled
    /\ NoRender
    /\ \E lens \in [1..cfg.ckpt -> 0..MaxCkptLen] :
       \E first \in {0, cfg.max_steps - 1} :
          runs = [r \in 1..cfg.ckpt |->
                    [step |-> IF r = 1 THEN first ELSE cfg.max_steps - 1,
                     pops |-> [p \in Pops |->
                                 IF p = "albedo" THEN PopArrays(r, lens[r], FALSE)
                                 ELSE IF cfg.use_shading THEN PopArrays(r, lens[r], TRUE)
                                 ELSE NoArrays]]]
    /\ files = <<>>
    /\ arrays = [p \in Pops |-> NoArrays]
    /\ loadIdx = 1

\* the torch.save calls of the training runs that produced the files
WriteCheckpoints ==
    /\ pc = "construct"
    /\ Len(files) < cfg.ckpt
    /\ files' = [r \in 1..Len(runs) |-> CheckpointData(runs[r].step, runs[r].pops)]
    /\ UNCHANGED <<runs, arrays, loadIdx, sampleVars, renderVars, viewerVars, cfg, sched, pc, abortAt, step, splats, optState,
                   grad, stratState, lrDecays, lock, viewerState, optPop, optIdx,
                   mask, saved, trace>>

\* ckpts = [torch.load(file) for file in cfg.ckpt]
TorchLoad ==
    /\ pc = "load"
    /\ pc' = "assign"
    /\ loadIdx' = 1
    /\ UNCHANGED <<runs, files, arrays, sampleVars, renderVars, viewerVars, cfg, sched, abortAt, step, splats, optState,
                   grad, stratState, lrDecays, lock, viewerState, optPop, optIdx,
                   mask, saved, trace>>

RECURSIVE CatUpTo(_, _, _)
CatUpTo(fs, k, n) ==
    IF n = 0 THEN <<>>
    ELSE CatUpTo(fs, k, n - 1) \o fs[n].entries["splats"][k]

\* a variant of CatCheckpoints that keeps the first file only
CatCheckpointsFirst(fs, k) == CatUpTo(fs, k, 1)

\* torch.cat([ckpt["splats"][k] for ckpt in ckpts])
CatCheckpoints(fs, k) == CatUpTo(fs, k, Len(fs))

\* one pass of "for k in runner.splats.keys()"; after the last key,
\* step = ckpts[0]["step"]
AssignKey ==
    /\ pc = "assign"
    /\ LET k == BaseKeys[loadIdx]
           v == CatCheckpoints(files, k)
       IN /\ arrays' = [arrays EXCEPT !["albedo"][k] = v]
          /\ splats' = [splats EXCEPT !["albedo"][k] = Len(v)]
    /\ IF loadIdx < Len(BaseKeys)
       THEN /\ loadIdx' = loadIdx + 1
            /\ UNCHANGED <<pc, step>>
       ELSE /\ loadIdx' = 1
            /\ pc' = "eval"
            /\ step' = files[1].step
    /\ UNCHANGED <<runs, files, sampleVars, renderVars, viewerVars, cfg, sched, abortAt, optState, grad, stratState,
                   lrDecays, lock, viewerState, optPop, optIdx, mask, saved, trace>>

NextLoad ==
    \/ WriteCheckpoints
    \/ RunnerInit
    \/ TorchLoad
    \/ AssignKey
    \/ Eval
    \/ RenderTraj
    \/ ViewerRenderBegin
    \/ ViewerRenderFn
    \/ ViewerRenderEnd

SpecLoad == InitLoad /\ [][NextLoad]_vars

Next ==
    \/ RunnerInit
    \/ ViewerPause
    \/ Acquire
    \/ LoopExit
    \/ Fetch
    \/ Forward
    \/ ForwardShading
    \/ PreBackward
    \/ PreBackwardShading
    \/ Loss
    \/ Backward
    \/ Checkpoint
    \/ Sparsify
    \/ ComputeMask
    \/ OptStep
    \/ OptZero
    \/ OptAux
    \/ SchedulerStep
    \/ PostBackward
    \/ Eval
    \/ RenderTraj
    \/ Release
    \/ ViewerRenderBegin
    \/ ViewerRenderFn
    \/ ViewerRenderEnd

Spec == Init /\ [][Next]_vars

(* ------------------------------------------- rasterize_splats, kernel *)
\* exact fractions [num, den] with den > 0, kept in lowest terms
RECURSIVE Gcd(_, _)
Gcd(a, b) == IF b = 0 THEN a ELSE Gcd(b, a % b)

Abs(x) == IF x < 0 THEN 0 - x ELSE x

Rat(n, d) ==
    LET g == Gcd(Abs(n), d)
    IN [num |-> n \div g, den |-> d \div g]

RatAdd(a, b) == Rat(a.num * b.den + b.num * a.den, a.den * b.den)
RatMul(a, b) == Rat(a.num * b.num, a.den * b.den)
RatLess(a, b) == a.num * b.den < b.num * a.den

RECURSIVE Pow2(_)
Pow2(n) == IF n = 0 THEN 1 ELSE 2 * Pow2(n - 1)

\* the number of time dimensions of a population: the albedo population
\* has the date, the shading population the date and the two sun angles
Dim(p) == IF p = "shading" THEN 3 ELSE 1

\* triu_len = d * (d - 1) // 2, the width of time_anisos
TriuLen(d) == (d * (d - 1)) \div 2

\* the values one primitive's parameters and a query take in the model;
\* time_scales holds logarithms, here to base 2
MeanVals == {0, MaxMean}
TimeVals == 0..MaxTime
LogScaleVals == {0, MaxLogScale}
AnisoVals == {0, MaxAniso}
AnisoChoices(p) ==
    IF p = "shading" THEN [1..TriuLen(Dim(p)) -> AnisoVals] ELSE {<<>>}

Prims(p) ==
    [ pop : {p},
      times : [1..Dim(p) -> MeanVals],
      time_scales : [1..Dim(p) -> LogScaleVals],
      time_anisos : AnisoChoices(p),
      opacities : {0} ]

\* time_scales = torch.exp(splats["time_scales"])
TimeScales(pr) == [j \in DOMAIN pr.time_scales |-> Pow2(pr.time_scales[j])]

\* time_delta = times[None, ...] - time_means
TimeDelta(pr, t) == [j \in DOMAIN pr.times |-> t[j] - pr.times[j]]

\* L of splat_cholesky: the unit lower-triangular matrix whose entries
\* below the diagonal are time_anisos, in the order of torch.tril_indices
SplatCholesky(pr) ==
    LET d == Len(pr.times)
        idx(i, j) == ((i - 1) * (i - 2)) \div 2 + j
    IN [i \in 1..d |-> [j \in 1..d |->
            IF i = j THEN 1
            ELSE IF j < i /\ d > 1 THEN pr.time_anisos[idx(i, j)]
            ELSE 0]]

RECURSIVE Dot(_, _, _)
Dot(f, g, n) == IF n = 0 THEN 0 ELSE Dot(f, g, n - 1) + f[n] * g[n]

\* a variant of TimeAnisotropic with the coupling switched on:
\* splat_cholesky(splats).transpose(1, 2) @ time_delta
TimeAnisotropicCoupled(pr, delta) ==
    LET L == SplatCholesky(pr)
        d == Len(delta)
    IN [i \in 1..d |-> Dot([j \in 1..d |-> L[j][i]], delta, d)]

\* time_anisotropic = time_delta
TimeAnisotropic(pr, delta) == delta

\* time_delta = time_anisotropic / time_scales
ScaledDelta(pr, t) ==
    LET a == TimeAnisotropic(pr, TimeDelta(pr, t))
    IN [j \in DOMAIN a |-> Rat(a[j], TimeScales(pr)[j])]

RECURSIVE SumSquares(_, _)
SumSquares(v, n) ==
    IF n = 0 THEN Rat(0, 1)
    ELSE RatAdd(SumSquares(v, n - 1), RatMul(v[n], v[n]))

\* a variant of TimeAlpha that sums over the first time dimension only
TimeAlphaFirstDim(pr, t) ==
    [exp_of |-> RatMul(Rat(0 - 1, 2), SumSquares(ScaledDelta(pr, t), 1))]

\* time_alpha = torch.exp(-0.5 * (time_delta * time_delta).sum(dim=-1)),
\* held as the exact argument of exp
TimeAlpha(pr, t) ==
    [exp_of |-> RatMul(Rat(0 - 1, 2), SumSquares(ScaledDelta(pr, t), Len(t)))]

\* opacities = torch.sigmoid(splats["opacities"]) * time_alpha, held as the
\* pair of its factors
Opacities(pr, t) ==
    [sigmoid_of |-> pr.opacities, time_alpha |-> TimeAlpha(pr, t)]

\* the part of rasterize_splats in front of the rasterization call
Kernel(pr, t) ==
    [time_alpha |-> TimeAlpha(pr, t), opacities |-> Opacities(pr, t)]

\* exp is strictly increasing and exp(0) = 1
ExpLess(a, b) == RatLess(a.exp_of, b.exp_of)
ExpIsOne(a) == a.exp_of.num = 0

RenderConfigs ==
    [ strategy : {"mcmc"},
      shading_strategy : {"mcmc"},
      use_shading : BOOLEAN,
      sparse_grad : {FALSE},
      packed : {FALSE},
      visible_adam : {FALSE},
      compression : {"none"},
      disable_viewer : {TRUE},
      save_steps : {{}},
      eval_steps : {{}},
      ckpt : {0},
      init_num_pts : {InitNumPts},
      cap_max : {InitNumPts + CapSpread},
      max_steps : {MaxSteps} ]

IdleRunner ==
    /\ Start
    /\ Unscaled
    /\ runs = <<>>
    /\ files = <<>>
    /\ arrays = [p \in Pops |-> NoArrays]
    /\ loadIdx = 1

\* one call of rasterize_splats: a primitive of one of the populations and
\* a query vector of that population's dimensionality
InitKernel ==
    /\ cfg \in RenderConfigs
    /\ IdleRunner
    /\ \E p \in ActivePops(cfg) :
          /\ prim \in Prims(p)
          /\ query \in [1..Dim(p) -> TimeVals]
    /\ kern = NoKern
    /\ pix = NoPix
    /\ img = NoImg

RasterizeSplats ==
    /\ prim # NoPrim
    /\ kern = NoKern
    /\ kern' = Kernel(prim, query)
    /\ UNCHANGED <<cfg, sched, pc, abortAt, step, splats, optState, grad, stratState,
                   lrDecays, lock, viewerState, optPop, optIdx, mask, saved,
                   trace, loadVars, sampleVars, viewerVars, prim, query, pix, img>>

NextKernel == RasterizeSplats

SpecKernel == InitKernel /\ [][NextKernel]_vars

(* ----------------------------------------- composite, train and eval *)
\* one pixel: the albedo render, the shading population's accumulated
\* colour and alpha in front of the background (in units of 1 / PixelUnit),
\* and the sun-angle fields the sample carries
SunFields == {"sun_angle", "sun_angles"}

Pixels ==
    { px \in [ albedo : 0..PixelUnit, shading : 0..PixelUnit,
               alpha : 0..PixelUnit, fields : SUBSET SunFields ] :
        px.shading <= px.alpha /\ px.fields # {} }

\* backgrounds=torch.tensor([(1.0,)])
White == PixelUnit

\* the rasterizer's output colour: accumulated colour plus the background
\* through the remaining transmittance, in units of 1 / PixelUnit^2
Rasterization(acc, alpha, backgrounds) ==
    acc * PixelUnit + backgrounds * (PixelUnit - alpha)

\* torch.clamp(colors, 0.0, 1.0), in units of 1 / PixelUnit^3
Clamp(x) ==
    LET one == PixelUnit * PixelUnit * PixelUnit
    IN IF x < 0 THEN 0 ELSE IF x > one THEN one ELSE x

\* the sample field each of the two reads the sun angles from
TrainSunField == "sun_angle"
EvalSunField == "sun_angles"

\* train: colors = colors * shading_colors
TrainComposite(px) ==
    px.albedo * Rasterization(px.shading, px.alpha, White)

\* eval: shading_colors = shading_colors + bkgd * (1.0 - shading_alphas),
\* colors = colors * shading_colors, then the clamp
EvalComposite(px) ==
    LET bkgd == PixelUnit
        shading_colors == Rasterization(px.shading, px.alpha, White)
                            + bkgd * (PixelUnit - px.alpha)
    IN Clamp(px.albedo * shading_colors)

Composed(px, field, v) ==
    IF field \in px.fields
    THEN [status |-> "image", field |-> field, v |-> v]
    ELSE [status |-> "KeyError", field |-> field, v |-> 0]

InitCompose ==
    /\ cfg \in {c \in RenderConfigs : c.use_shading}
    /\ IdleRunner
    /\ prim = NoPrim
    /\ query = <<>>
    /\ kern = NoKern
    /\ pix \in Pixels
    /\ img = NoImg

\* the shading branch of a training iteration's forward pass
TrainCompose ==
    /\ pix # NoPix
    /\ img.train = NotComposed
    /\ img' = [img EXCEPT !.train = Composed(pix, TrainSunField, TrainComposite(pix))]
    /\ UNCHANGED <<cfg, sched, pc, abortAt, step, splats, optState, grad, stratState,
                   lrDecays, lock, viewerState, optPop, optIdx, mask, saved,
                   trace, loadVars, sampleVars, viewerVars, prim, query, kern, pix>>

\* the shading branch of eval's loop body
EvalCompose ==
    /\ pix # NoPix
    /\ img.eval = NotComposed
    /\ img' = [img EXCEPT !.eval = Composed(pix, EvalSunField, EvalComposite(pix))]
    /\ UNCHANGED <<cfg, sched, pc, abortAt, step, splats, optState, grad, stratState,
                   lrDecays, lock, viewerState, optPop, optIdx, mask, saved,
                   trace, loadVars, sampleVars, viewerVars, prim, query, kern, pix>>

NextCompose == TrainCompose \/ EvalCompose

SpecCompose == InitCompose /\ [][NextCompose]_vars

\* ---------------------------------------------------------------------
\* __main__: the step fields of the parsed Config are scaled by
\* cfg.steps_scaler before main is launched

\* largest numerator of steps_scaler
MaxScaleNum == 3

\* steps_scaler values, as exact fractions
Scalers == {Rat(n, d) : n \in 1..MaxScaleNum, d \in 1..2}

StrategyFields == {"strategy", "shading_strategy"}

\* a DefaultStrategy or MCMCStrategy object; MCMCStrategy has no reset_every
Strategies(kind) ==
    [ kind : {kind},
      refine_start_iter : {0, 1},
      refine_stop_iter : {MaxSteps},
      refine_every : {1, MaxSteps},
      reset_every : IF kind = "default" THEN {MaxSteps} ELSE {Empty} ]

\* the Configs tyro hands to __main__: one of the two entries of configs,
\* with step fields overridden on the command line
ParsedConfigs ==
    UNION {[ steps_scaler : Scalers,
             max_steps : {MaxSteps},
             eval_steps : {<<>>, <<1>>, <<MaxSteps>>},
             save_steps : {<<>>, <<MaxSteps>>},
             ply_steps : {<<>>},
             strategy : Strategies(kind),
             shading_strategy : Strategies(kind) ] : kind \in {"default", "mcmc"}}

\* int(i * factor) of a step count i >= 0
Scale(i, factor) == (i * factor.num) \div factor.den

ScaleAll(steps, factor) == [i \in DOMAIN steps |-> Scale(steps[i], factor)]

\* the isinstance branches of adjust_steps
AdjustStrategy(strategy, factor) ==
    IF strategy.kind = "default"
    THEN [strategy EXCEPT
            !.refine_start_iter = Scale(@, factor),
            !.refine_stop_iter = Scale(@, factor),
            !.reset_every = Scale(@, factor),
            !.refine_every = Scale(@, factor)]
    ELSE [strategy EXCEPT
            !.refine_start_iter = Scale(@, factor),
            !.refine_stop_iter = Scale(@, factor),
            !.refine_every = Scale(@, factor)]

\* Config.adjust_steps(strategy, factor); passed names the field of c that
\* holds the strategy object handed in, which is modified in place
AdjustSteps(c, passed, factor) ==
    [c EXCEPT
        !.eval_steps = ScaleAll(@, factor),
        !.save_steps = ScaleAll(@, factor),
        !.ply_steps = ScaleAll(@, factor),
        !.max_steps = Scale(@, factor),
        ![passed] = AdjustStrategy(@, factor)]

InitAdjust ==
    /\ cfg \in RenderConfigs
    /\ Start
    /\ NoRender
    /\ runs = <<>>
    /\ files = <<>>
    /\ arrays = [p \in Pops |-> NoArrays]
    /\ loadIdx = 1
    /\ \E c \in ParsedConfigs : sched = [status |-> "parsed", given |-> c, now |-> c]

\* cfg.adjust_steps(cfg.strategy, cfg.steps_scaler)
MainAdjustSteps ==
    /\ sched.status = "parsed"
    /\ sched' = [sched EXCEPT
                    !.status = "adjusted",
                    !.now = AdjustSteps(@, "strategy", @.steps_scaler)]
    /\ UNCHANGED <<cfg, pc, abortAt, step, splats, optState, grad, stratState,
                   lrDecays, lock, viewerState, optPop, optIdx, mask, saved,
                   trace, loadVars, sampleVars, renderVars, viewerVars>>

NextAdjust == MainAdjustSteps

SpecAdjust == InitAdjust /\ [][NextAdjust]_vars

(* ====================================================== properties *)
Kinds(tr) == {tr[i].e : i \in 1..Len(tr)}

\* pairs <<a, b>> of event kinds: within an iteration every a precedes every b
MustPrecede ==
    { <<"forward", "pre_backward">>, <<"pre_backward", "backward">>,
      <<"forward", "loss">>, <<"loss", "backward">>,
      <<"backward", "sparsify">>, <<"backward", "opt_step">>,
      <<"sparsify", "opt_step">>, <<"opt_step", "sched">>,
      <<"zero_grad", "sched">>, <<"sched", "post_backward">> }

\* kinds that cannot occur unless the other kind has occurred before them
Needs ==
    { <<"pre_backward", "forward">>, <<"loss", "forward">>,
      <<"backward", "loss">>, <<"backward", "pre_backward">>,
      <<"sparsify", "backward">>, <<"opt_step", "backward">>,
      <<"zero_grad", "opt_step">>, <<"sched", "opt_step">>,
      <<"post_backward", "sched">> }

Pos(tr, kind) == {i \in 1..Len(tr) : tr[i].e = kind}

\* no event of tr from index i on is of a kind that must precede a kind
\* already seen
RECURSIVE InOrder(_, _, _)
InOrder(tr, i, seen) ==
    \/ i > Len(tr)
    \/ /\ \A s \in seen : <<tr[i].e, s>> \notin MustPrecede
       /\ InOrder(tr, i + 1, seen \cup {tr[i].e})

SchedCount(tr, t) ==
    Cardinality({i \in 1..Len(tr) : tr[i].e = "sched" /\ tr[i].pop = t})

\* C1: within every training iteration the events occur in the order
\* forward render, loss, backward pass, (sparse mode only) gradient
\* conversion, per-group optimizer step followed by the zeroing of that
\* group's gradient, all gradients zeroed, exactly one advance of each
\* learning-rate schedule, and only then stepPostBackward; stepPreBackward
\* lies between the forward render and the backward pass.
C1_StepOrder ==
    LET ks == Kinds(trace)
        n == Len(trace)
        at == [k \in ks |-> Pos(trace, k)]
    IN
    /\ InOrder(trace, 1, {})
    /\ \A nd \in Needs : nd[1] \in ks => nd[2] \in ks
    /\ "pre_backward" \in ks =>
          \A i \in at["pre_backward"] :
             \E j \in 1..(i - 1) : trace[j].e = "forward" /\ trace[j].pop = trace[i].pop
    /\ "zero_grad" \in ks =>
          \A i \in at["zero_grad"] :
             /\ i > 1
             /\ trace[i - 1].e = "opt_step"
             /\ trace[i - 1].pop = trace[i].pop
             /\ trace[i - 1].key = trace[i].key
    /\ "sched" \in ks =>
          /\ \A i \in at["opt_step"] : i < n /\ trace[i + 1].e = "zero_grad"
          /\ \A p \in Pops : \A k \in DOMAIN grad[p] : grad[p][k] = "none"
    /\ "sparsify" \in ks => cfg.sparse_grad
    /\ ("opt_step" \in ks /\ cfg.sparse_grad) => "sparsify" \in ks
    /\ \A t \in SchedTargets :
          /\ SchedCount(trace, t) <= 1
          /\ ("post_backward" \in ks /\ t \in Range(Schedulers(cfg))) =>
                SchedCount(trace, t) = 1
          /\ t \in Range(Schedulers(cfg)) =>
                lrDecays[t] = step + SchedCount(trace, t)

\* an iteration in sparse mode that ran through both post-backward calls
C1_Witness ==
    /\ cfg.sparse_grad
    /\ pc = "release"
    /\ {"forward", "pre_backward", "loss", "backward", "sparsify", "opt_step",
        "zero_grad", "sched", "post_backward"} \subseteq Kinds(trace)

InsideStep == Constructed /\ pc \notin {"acquire", "done"}

\* C2: with the viewer enabled, viewer.lock is held by the training loop
\* from before the data fetch until all per-step work is over, so a viewer
\* render holding the lock never runs while a step is in progress.
C2_LockCoversStep ==
    UsesViewer(cfg) =>
        /\ InsideStep => lock = "train"
        /\ lock = "viewer" => ~InsideStep

\* the viewer renders between two steps, after a structural edit
C2_Witness ==
    /\ lock = "viewer"
    /\ pc = "acquire"
    /\ step >= 2
    /\ splats["albedo"]["means"] # cfg.init_num_pts

CoIndexed(p) ==
    /\ \A k \in DOMAIN splats[p] : splats[p][k] = splats[p]["means"]
    /\ DOMAIN optState[p] = DOMAIN splats[p]
    /\ \A k \in DOMAIN optState[p] : optState[p][k] \in {Empty, splats[p]["means"]}

\* C3: for each population, at creation and at the start and end of every
\* training step, every parameter array has the same leading length N and
\* every group's optimizer state is co-indexed with that N.
C3_ArrayBijection ==
    Constructed => \A p \in ActivePops(cfg) : CoIndexed(p)

\* both populations have been edited to a size other than the initial one
\* while their optimizers hold moment state
C3_Witness ==
    /\ pc = "acquire"
    /\ step >= 2
    /\ cfg.use_shading
    /\ splats["shading"]["means"] # cfg.init_num_pts
    /\ splats["albedo"]["means"] # splats["shading"]["means"]
    /\ optState["shading"]["means"] = splats["shading"]["means"]
    /\ optState["albedo"]["means"] = splats["albedo"]["means"]

Malformed(c, d) == d # {} /\ ~(ReadFields(c) \subseteq d)

Untrained ==
    /\ step = 0
    /\ \A t \in SchedTargets : lrDecays[t] = 0
    /\ \A p \in ActivePops(cfg) :
          /\ splats[p] = NewLen(cfg.init_num_pts, p = "shading")
          /\ optState[p] = NewOpt(p = "shading")

\* C5: with sparse_grad on and packed off the run aborts with an assertion
\* in the first training step, before any optimizer step, schedule advance
\* or structural edit (unless the first sample is malformed and the step
\* raises at its read even earlier).
C5_SparseNeedsPacked ==
    (cfg.sparse_grad /\ ~cfg.packed) =>
        /\ pc \in {"construct", "acquire", "fetch", "forward", "forward_shading",
                   "pre_backward", "pre_backward_shading", "loss", "backward",
                   "checkpoint", "sparsify", "aborted"}
        /\ pc # "construct" => Untrained
        /\ Kinds(trace) \cap {"opt_step", "sched", "post_backward"} = {}
        /\ (pc = "aborted" /\ Constructed) =>
              \/ abortAt \in {"rasterization", "sparse_assert"}
              \/ abortAt = "sample" /\ Malformed(cfg, data)

\* the assertion in front of the gradient conversion has fired
C5_Witness ==
    /\ cfg.sparse_grad
    /\ ~cfg.packed
    /\ pc = "aborted"
    /\ abortAt = "sparse_assert"
    /\ "backward" \in Kinds(trace)

Size(p) == splats[p]["means"]

RelocationPops(c) ==
    {p \in ActivePops(c) :
        (IF p = "albedo" THEN c.strategy ELSE c.shading_strategy) = "mcmc"}

\* C4 (as stated): with the relocation variant the population size never
\* exceeds cap_max.
C4_NeverAboveCap ==
    Constructed => \A p \in RelocationPops(cfg) : Size(p) <= cfg.cap_max

\* C4 (amended): with the relocation variant the population size never
\* decreases, never exceeds the larger of init_num_pts and cap_max, and no
\* longer changes once it is at or above cap_max.
C4_CapAmended ==
    [][Constructed =>
         \A p \in RelocationPops(cfg) :
            /\ splats'[p]["means"] >= Size(p)
            /\ splats'[p]["means"] <= Max(cfg.init_num_pts, cfg.cap_max)
            /\ Size(p) >= cfg.cap_max => splats'[p]["means"] = Size(p)]_vars

\* a relocation-variant population has grown to cap_max and the run ended
C4_Witness ==
    /\ pc = "done"
    /\ cfg.strategy = "mcmc"
    /\ cfg.cap_max > cfg.init_num_pts
    /\ Size("albedo") = cfg.cap_max

UnknownConfig(c) ==
    \/ c.strategy \notin {"default", "mcmc"}
    \/ c.use_shading /\ c.shading_strategy \notin {"default", "mcmc"}
    \/ c.compression \notin {"none", "png"}

\* C6: an unknown density-control variant of either population, or an
\* unknown compression codec, is rejected during Runner construction, so no
\* training step ever runs with it.
C6_UnknownRejected ==
    UnknownConfig(cfg) =>
        /\ pc \in {"construct", "aborted"}
        /\ ~Constructed
        /\ trace = <<>>

\* C7: every checkpoint written during training holds the step index and,
\* for every active population, all of its parameter arrays by group name.
C7_CheckpointComplete ==
    \A ck \in saved :
        /\ ck.step \in 0..(cfg.max_steps - 1)
        /\ \A p \in ActivePops(cfg) :
              \E e \in DOMAIN ck.entries : DOMAIN ck.entries[e] = Range(OptKeys(p))

\* C9: for every active population the means group's learning rate has been
\* multiplied by gamma once per completed training step, hence max_steps
\* times (down to 1 percent) when training is over.
C9_PositionLrDecay ==
    \A p \in ActivePops(cfg) :
        /\ pc = "acquire" => lrDecays[p] = step
        /\ pc = "done" => lrDecays[p] = cfg.max_steps

OwnArgs(tr) ==
    \A i \in 1..Len(tr) :
        tr[i].e \in {"pre_backward", "opt_step", "post_backward"} =>
            tr[i].arg \in {"", tr[i].pop}

\* C10: the controller calls and optimizer steps of one population read and
\* modify only that population's arrays, optimizer state, statistics and
\* controller state; an edit of one population leaves the other unchanged.
C10_Decoupled ==
    [][/\ OwnArgs(trace')
       /\ pc \in {"opt_step", "opt_zero", "post_backward"} =>
             \A q \in Pops \ {optPop} :
                /\ splats'[q] = splats[q]
                /\ optState'[q] = optState[q]
                /\ stratState'[q] = stratState[q]]_vars

\* what a training step leaves behind
StepEffects == <<step, splats, optState, grad, lrDecays, saved, stratState>>

\* C11: a training sample lacking a field the step reads is neither retried
\* nor skipped: the step raises at the read, before the backward pass, and
\* after a raise no further step runs; an exhausted data iterator is
\* restarted and the same step goes on with the new iterator's first sample.
C11_SampleErrorAborts ==
    [][/\ (Malformed(cfg, data) /\ pc # "aborted") =>
             /\ pc \in {"forward", "forward_shading"}
             /\ pc' \in {"forward", "forward_shading", "aborted"}
             /\ UNCHANGED StepEffects
       /\ (Malformed(cfg, data) /\ pc = "aborted") =>
             abortAt \in {"sample", "rasterization"}
       /\ pc = "aborted" =>
             /\ pc' = "aborted"
             /\ UNCHANGED <<StepEffects, trace, data, iterLeft>>
       /\ (pc = "fetch" /\ pc' # pc) =>
             /\ step' = step
             /\ iterLeft = 0 => iterLeft' = TrainLen - 1
             /\ iterLeft > 0 => iterLeft' = iterLeft - 1
             /\ \/ pc' = "forward" /\ Range(FetchReads) \subseteq data'
                \/ pc' = "aborted" /\ Malformed(cfg, data')]_vars

\* the iterator was restarted, and the sample it then produced lacks alpha:
\* the step raised after its renders
C11_Witness ==
    /\ pc = "aborted"
    /\ abortAt = "sample"
    /\ step = TrainLen
    /\ iterLeft = TrainLen - 1
    /\ "alpha" \notin data
    /\ "forward" \in Kinds(trace)

\* C13: the viewer's render callback gives back an image for every request,
\* whatever the render mode and whether or not shading is in use.
C13_ViewerAlwaysRenders ==
    (lock = "viewer" /\ renders # "none") => renders = "image"

\* C14: in visibility-masked mode the mask handed to a population's
\* optimizers has one entry per primitive of that population and comes from
\* that population's own forward pass.
C14_MaskOfOwnPopulation ==
    (pc = "opt_step" /\ cfg.visible_adam) =>
        /\ mask.of = optPop
        /\ mask.len = Size(optPop)

\* C15: in sparse mode every gradient of the population whose optimizers
\* are about to step is absent or in touched-indices-only form, converted
\* over that population's own list of touched primitives.
C15_SparseOwnList ==
    (pc = "opt_step" /\ cfg.sparse_grad) =>
        /\ \A k \in DOMAIN grad[optPop] : grad[optPop][k] \in {"none", "sparse"}
        /\ \E i \in 1..Len(trace) :
              /\ trace[i].e = "sparsify"
              /\ trace[i].pop = optPop
              /\ trace[i].arg = optPop

\* C16: whatever the flags, the optimizer kind built at construction agrees
\* with how an iteration drives it: a mask is handed to step iff the
\* optimizers are the visibility-masked kind, and gradients are converted
\* to sparse form iff they are the sparse kind.
C16_OneUpdateMode ==
    pc = "opt_step" =>
        /\ mask # NoMask <=> OptimizerClass(cfg) = "SelectiveAdam"
        /\ "sparsify" \in Kinds(trace) <=> OptimizerClass(cfg) = "SparseAdam"

KnownVariants(c) ==
    /\ c.strategy \in {"default", "mcmc"}
    /\ c.shading_strategy \in {"default", "mcmc"}

\* C17: for every pair of known variants the shading controller's state is
\* initialized in the call form of the shading variant, and its
\* stepPostBackward is called in the argument form of the shading variant.
C17_ShadingOwnDispatch ==
    (Constructed /\ cfg.use_shading /\ KnownVariants(cfg)) =>
        /\ stratState["shading"] = cfg.shading_strategy
        /\ \A i \in 1..Len(trace) :
              (trace[i].e = "post_backward" /\ trace[i].pop = "shading") =>
                  trace[i].key = cfg.shading_strategy

\* C18: when stepPostBackward of a relocation-variant controller is about
\* to be called, the learning rate handed in is the live learning rate of
\* the means group of the population the controller edits (both groups
\* start from the same rate, so equal rates means equally many decays).
C18_OwnLiveLr ==
    (pc = "post_backward" /\ PostVariant(cfg, optPop) = "mcmc") =>
        lrDecays[PostBackwardArgs(cfg, optPop).lr] = lrDecays[optPop]

\* the deviation |t_j - timeMean_j| / timeScale_j
Deviation(pr, t, j) == Rat(Abs(t[j] - pr.times[j]), TimeScales(pr)[j])

Rendered == prim # NoPrim /\ kern # NoKern

\* C12: timeAlpha is 1 exactly when the query equals the primitive's
\* timeMean in every coordinate and below 1 otherwise, and it strictly
\* decreases when the deviation |t_j - timeMean_j| / timeScale_j of one
\* coordinate grows while the other coordinates stay as they are.
C12_KernelPeakAndDecay ==
    Rendered =>
        /\ ExpIsOne(kern.time_alpha) <=> query = prim.times
        /\ query # prim.times => ExpLess(kern.time_alpha, [exp_of |-> Rat(0, 1)])
        /\ \A j \in DOMAIN query : \A v \in TimeVals : \A r \in LogScaleVals :
              LET t2 == [query EXCEPT ![j] = v]
                  p2 == [prim EXCEPT !.time_scales[j] = r]
              IN RatLess(Deviation(prim, query, j), Deviation(p2, t2, j)) =>
                    ExpLess(TimeAlpha(p2, t2), kern.time_alpha)

\* a shading primitive queried off its mean in the last coordinate only
C12_Witness ==
    /\ Rendered
    /\ prim.pop = "shading"
    /\ query[1] = prim.times[1]
    /\ query[2] = prim.times[2]
    /\ query[3] = prim.times[3] + 1
    /\ prim.time_scales[3] = MaxLogScale
    /\ ~ExpIsOne(kern.time_alpha)

\* C19: the render does not read time_anisos: primitives that agree in every
\* field but time_anisos get the same timeAlpha and the same effective
\* opacity for every query, for d = 1 and d = 3.
C19_AnisoInactive ==
    Rendered =>
        \A a \in AnisoChoices(prim.pop) :
            Kernel([prim EXCEPT !.time_anisos = a], query) = kern

\* a shading primitive with non-zero coupling entries, queried off its mean
\* in every coordinate
C19_Witness ==
    /\ Rendered
    /\ prim.pop = "shading"
    /\ \A i \in DOMAIN prim.time_anisos : prim.time_anisos[i] = MaxAniso
    /\ \A j \in DOMAIN query : query[j] # prim.times[j]
    /\ kern.opacities.time_alpha = kern.time_alpha

\* C20: with shading in use, eval composes the final image as training
\* does: the albedo render times the shading render over a white
\* background that is composited once, the sun angles read from the same
\* sample field.
C20_EvalComposesAsTrain ==
    (img.train # NotComposed /\ img.eval # NotComposed) => img.eval = img.train

\* C21: step s writes a checkpoint exactly when s + 1 is in save_steps or s
\* is the final step max_steps - 1; the file is labelled s, is written after
\* the backward pass and before any optimizer step or structural edit of
\* the iteration, and holds arrays as they stand at that moment; nothing
\* else writes a checkpoint.
C21_CheckpointBeforeUpdate ==
    [][/\ (pc = "checkpoint" /\ pc' # pc) =>
             /\ UNCHANGED <<splats, optState>>
             /\ IF step + 1 \in cfg.save_steps \/ step = cfg.max_steps - 1
                THEN /\ Cardinality(saved' \ saved) = 1
                     /\ saved \subseteq saved'
                     /\ \A ck \in saved' \ saved :
                           /\ ck.step = step
                           /\ \A e \in DOMAIN ck.entries :
                                 \E p \in Pops : ck.entries[e] = splats[p]
                     /\ "backward" \in Kinds(trace)
                     /\ Kinds(trace) \cap {"opt_step", "sched", "post_backward"} = {}
                ELSE saved' = saved
       /\ pc # "checkpoint" => saved' = saved
       /\ \A ck \in saved : ck.step <= step
       /\ \A ck \in saved : \A other \in saved : ck.step = other.step => ck = other]_vars

\* a run that saved at step 0 and at its final step, with a structural edit
\* after each of the two saves
C21_Witness ==
    /\ pc = "done"
    /\ \E ck \in saved : ck.step = 0 /\ ck.entries["splats"]["means"] = cfg.init_num_pts
    /\ \E ck \in saved :
          /\ ck.step = cfg.max_steps - 1
          /\ ck.entries["splats"]["means"] # cfg.init_num_pts
          /\ ck.entries["splats"]["means"] # Size("albedo")

\* C22: with the viewer enabled, once the training loop is out of a step,
\* whether the step ended normally or with an error, viewer.lock is no
\* longer held by the training loop.
C22_LockReleasedOnExit ==
    (UsesViewer(cfg) /\ pc \in {"acquire", "done", "aborted"}) => lock # "train"

\* C23: in eval-only mode a viewer render that holds viewer.lock sees one
\* whole population: every array of the albedo population has the same
\* number of primitives, never some arrays already replaced by the loaded
\* ones and the others not yet.
C23_ViewerSeesWholePopulation ==
    (cfg.ckpt > 0 /\ lock = "viewer") =>
        \A k \in Range(BaseKeys) : \A other \in Range(BaseKeys) :
            splats["albedo"][k] = splats["albedo"][other]

\* C24: the evaluation dispatch of a training step (eval, render_traj, then
\* run_compression) returns to the loop, which goes on to the end of the
\* step, and leaves the populations and the optimizer state as they were
\* just before the dispatch.
C24_DispatchReturnsUnchanged ==
    [][(cfg.ckpt = 0 /\ pc \in {"eval", "render_traj"}) =>
          /\ pc' \in {"eval", "render_traj", "release"}
          /\ UNCHANGED <<splats, optState>>]_vars

\* C25: a training run whose eval_steps is not empty never stops inside the
\* evaluation dispatch, and when it stops it has executed all max_steps
\* steps.
C25_EvalStepsRunToEnd ==
    (cfg.ckpt = 0 /\ cfg.eval_steps # {} /\ pc \in {"done", "aborted"}) =>
        /\ abortAt \notin {"eval", "render_traj"}
        /\ pc = "done" => step = cfg.max_steps

\* C26: once __main__ has scaled the run by steps_scaler = f, max_steps,
\* every eval, save and ply step, and the refine start, stop and period
\* (and, for the threshold variant, the reset period) of both the albedo and
\* the shading controller are int(value * f) of what was parsed (the
\* shading controller when the run has a shading population).
C26_BothControllersScaled ==
    sched.status = "adjusted" =>
        LET f == sched.given.steps_scaler
            Scaled(v) == (v * f.num) \div f.den
        IN /\ sched.now.max_steps = Scaled(sched.given.max_steps)
           /\ \A l \in {"eval_steps", "save_steps", "ply_steps"} :
                 /\ Len(sched.now[l]) = Len(sched.given[l])
                 /\ \A i \in 1..Len(sched.given[l]) :
                       sched.now[l][i] = Scaled(sched.given[l][i])
           /\ \A s \in {"strategy"} \cup (IF cfg.use_shading THEN StrategyFields ELSE {}) :
                 /\ sched.now[s].refine_start_iter = Scaled(sched.given[s].refine_start_iter)
                 /\ sched.now[s].refine_stop_iter = Scaled(sched.given[s].refine_stop_iter)
                 /\ sched.now[s].refine_every = Scaled(sched.given[s].refine_every)
                 /\ sched.given[s].kind = "default" =>
                       sched.now[s].reset_every = Scaled(sched.given[s].reset_every)

Loaded == cfg.ckpt > 0 /\ Constructed /\ pc \notin {"construct", "load", "assign"}

RunLen(r) == Len(runs[r].pops["albedo"]["means"])

RECURSIVE Offset(_)
Offset(r) == IF r <= 1 THEN 0 ELSE Offset(r - 1) + RunLen(r - 1)

\* C8: in eval-only mode, after loading k >= 1 checkpoint files, every
\* parameter array of the population is the concatenation along the
\* primitive index, in file order, of that key's array of each saved
\* population; all fields share the length N_1 + ... + N_k, and for k = 1
\* the loaded arrays are the saved ones.
C8_LoadConcatenates ==
    Loaded =>
        /\ \A k \in Range(BaseKeys) :
              /\ Len(arrays["albedo"][k]) = Offset(cfg.ckpt + 1)
              /\ splats["albedo"][k] = Offset(cfg.ckpt + 1)
              /\ \A r \in 1..cfg.ckpt : \A i \in 1..RunLen(r) :
                    arrays["albedo"][k][Offset(r) + i] = runs[r].pops["albedo"][k][i]
        /\ cfg.ckpt = 1 => arrays["albedo"] = runs[1].pops["albedo"]

\* at least two files, non-empty and of different sizes, have been loaded
C8_Witness ==
    /\ Loaded
    /\ cfg.ckpt >= 2
    /\ RunLen(1) > 0
    /\ RunLen(2) > RunLen(1)
    /\ Len(arrays["albedo"]["colors"]) = Offset(cfg.ckpt + 1)

====
